---------------------------- MODULE Spec2Model ----------------------------
(***************************************************************************)
(* A model of two components of pomerium:                                  *)
(*                                                                         *)
(*   * config.MetricsManager (src/unnamed/part_000): the reconfigurable    *)
(*     metrics endpoint.  Its fields are guarded by one sync.RWMutex;      *)
(*     OnConfigChange is the writer, ServeHTTP the reader.                 *)
(*   * databroker.newServerConfig and its ServerOptions                    *)
(*     (src/internal/databroker/config.go): the storage configuration      *)
(*     builder.                                                            *)
(*                                                                         *)
(* Spec is the endpoint (constructor thread, config source thread and      *)
(* request threads interleaved); SpecCfg is the builder applied to every   *)
(* bounded sequence of options.                                            *)
(***************************************************************************)
EXTENDS Integers, Sequences, FiniteSets, TLC

VARIABLES
    \* ---- MetricsManager fields (part_000:15-22)
    mu,               \* sync.RWMutex: [writer, readers]
    installationID,
    serviceName,
    addr,
    basicAuth,
    handler,          \* http.Handler, NilHandler when nil
    \* ---- the config source (Source interface, part_000:25-29)
    srcCfg,           \* the source's current configuration
    subscribed,       \* mgr.OnConfigChange is registered as a listener
    changes,          \* number of configuration changes the source has made
    \* ---- threads calling OnConfigChange
    wpc,              \* position of each writer thread
    wcfg,             \* the cfg argument of the running OnConfigChange
    \* ---- threads calling ServeHTTP
    rpc,              \* position of each request thread
    req,              \* the request being served (its credentials)
    seenCheck,        \* mgr.handler as read by the nil check (line 51)
    seenServe,        \* mgr.handler as read by the delegation (line 55)
    response,         \* what the request received
    \* ---- external effects
    buildInfo,        \* the arguments of the last metrics.SetBuildInfo call
    emitted,          \* number of metrics.SetBuildInfo calls
    nextId,           \* identity given to the next constructed handler
    attempts,         \* number of metrics.PrometheusHandler calls
    \* ---- history
    lastBuild,        \* outcome of the most recent PrometheusHandler call
    stable,           \* mgr.handler as of the last Unlock (nil at construction)
    completed,        \* number of OnConfigChange calls that have returned
    lastApplied,      \* cfg of the most recently returned OnConfigChange
    snap,             \* the fields as of the running OnConfigChange's Lock
    \* ---- newServerConfig (config.go:34-43)
    options,          \* the options argument
    optIdx,           \* index of the next option the loop applies
    scfg,             \* the *serverConfig accumulator
    bpc               \* position in newServerConfig

evars == <<mu, installationID, serviceName, addr, basicAuth, handler,
           srcCfg, subscribed, changes, wpc, wcfg, rpc, req, seenCheck,
           seenServe, response, buildInfo, emitted, nextId, attempts,
           lastBuild, stable, completed, lastApplied, snap>>

bvars == <<options, optIdx, scfg, bpc>>

vars == <<evars, bvars>>

(***************************************************************************)
(* Bounds                                                                  *)
(***************************************************************************)
\* configuration changes the source makes
MaxChanges == 1
\* options passed to newServerConfig
MaxOptions == 2

(***************************************************************************)
(* Configuration snapshots                                                 *)
(***************************************************************************)
\* a string as the sequence of its characters
NoCred == <<>>
CredAlice == <<"a", ":", "s">>

ServicesSet == {"all", "proxy"}
AddrSet == {"", ":9090"}
BasicAuthSet == {NoCred, CredAlice}
InstallationIDSet == {"i1", "i2"}

Configs == [services : ServicesSet, addr : AddrSet,
            basicAuth : BasicAuthSet, installationID : InstallationIDSet]

\* the configurations the source may hold when the program starts
InitConfigs == {c \in Configs : c.services = "all" /\ c.installationID = "i1"}

NoCfg == [services |-> "-", addr |-> "-", basicAuth |-> <<"-">>,
          installationID |-> "-"]

Writers == {"ctor", "src"}
Readers == {"r1", "r2"}
None == "none"

\* the credentials a request carries
NoAuthRequest == [present |-> FALSE, username |-> <<>>, password |-> <<>>]
Requests == {NoAuthRequest,
             [present |-> TRUE, username |-> <<"a">>, password |-> <<"s">>],
             [present |-> TRUE, username |-> <<"b">>, password |-> <<"t">>]}

(***************************************************************************)
(* Handlers                                                                *)
(***************************************************************************)
NilHandler == [id |-> 0, installationID |-> "", wrapped |-> FALSE,
               username |-> <<>>, password |-> <<>>]

NoResponse == [status |-> 0, inner |-> 0]
NotFound == [status |-> 404, inner |-> 0]

\* telemetry.ServiceName: the service option to the telemetry label
ServiceName(service) ==
    IF service \in {"all", ""} THEN "pomerium" ELSE "pomerium-" \o service

\* index of the first ":" of s, 0 when there is none
ColonIndex(s) ==
    IF \E i \in 1..Len(s) : s[i] = ":"
    THEN CHOOSE i \in 1..Len(s) : s[i] = ":" /\ \A j \in 1..(i - 1) : s[j] # ":"
    ELSE 0

\* Options.GetMetricsBasicAuth: (username, password, ok).  ok reports a
\* non-empty credential; the credential is "username:password".
GetMetricsBasicAuth(cred) ==
    IF cred = <<>>
    THEN [username |-> <<>>, password |-> <<>>, ok |-> FALSE]
    ELSE IF ColonIndex(cred) = 0
    THEN [username |-> cred, password |-> <<>>, ok |-> TRUE]
    ELSE [username |-> SubSeq(cred, 1, ColonIndex(cred) - 1),
          password |-> SubSeq(cred, ColonIndex(cred) + 1, Len(cred)),
          ok |-> TRUE]

\* metrics.PrometheusHandler(EnvoyAdminURL, installationID), when it succeeds
PrometheusHandler(id, inst) ==
    [id |-> id, installationID |-> inst, wrapped |-> FALSE,
     username |-> <<>>, password |-> <<>>]

\* middleware.RequireBasicAuth(username, password)(h)
RequireBasicAuth(username, password, h) ==
    [h EXCEPT !.wrapped = TRUE, !.username = username, !.password = password]

\* h.ServeHTTP(w, r): the status written and the inner handler invoked
HandlerServeHTTP(h, r) ==
    IF h = NilHandler
    THEN [status |-> 500, inner |-> 0]     \* nil dereference: panic
    ELSE IF h.wrapped /\ ~(r.present /\ r.username = h.username
                                     /\ r.password = h.password)
    THEN [status |-> 401, inner |-> 0]
    ELSE [status |-> 200, inner |-> h.id]

Fields == [serviceName |-> serviceName, addr |-> addr, basicAuth |-> basicAuth,
           installationID |-> installationID, handler |-> handler,
           emitted |-> emitted, attempts |-> attempts]

NoBuildInfo == [serviceName |-> "-", hostname |-> "-"]

NoSnap == [serviceName |-> "-", addr |-> "-", basicAuth |-> <<"-">>,
           installationID |-> "-", handler |-> NilHandler, emitted |-> 0,
           attempts |-> 0]

(***************************************************************************)
(* Initial state: mgr := &MetricsManager{} and newServerConfig not begun   *)
(***************************************************************************)
InitEndpoint ==
    /\ mu = [writer |-> None, readers |-> {}, pending |-> None]
    /\ installationID = ""
    /\ serviceName = ""
    /\ addr = ""
    /\ basicAuth = <<>>
    /\ handler = NilHandler
    /\ srcCfg \in InitConfigs
    /\ subscribed = FALSE
    /\ changes = 0
    /\ wpc = [w \in Writers |-> IF w = "ctor" THEN "new" ELSE "idle"]
    /\ wcfg = [w \in Writers |-> NoCfg]
    /\ rpc = [r \in Readers |-> "idle"]
    /\ req = [r \in Readers |-> NoAuthRequest]
    /\ seenCheck = [r \in Readers |-> NilHandler]
    /\ seenServe = [r \in Readers |-> NilHandler]
    /\ response = [r \in Readers |-> NoResponse]
    /\ buildInfo = NoBuildInfo
    /\ emitted = 0
    /\ nextId = 1
    /\ attempts = 0
    /\ lastBuild = "none"
    /\ stable = NilHandler
    /\ completed = 0
    /\ lastApplied = NoCfg
    /\ snap = NoSnap


(***************************************************************************)
(* serverConfig (config.go:22-32)                                          *)
(***************************************************************************)
\* cfg := new(serverConfig): every field at its zero value; a nil secret
\* is [set |-> FALSE]
NoSecret == [set |-> FALSE, bytes |-> <<>>]

ZeroServerConfig ==
    [installationID |-> "", deletePermanentlyAfter |-> 0, secret |-> NoSecret,
     storageType |-> "", storageConnectionString |-> "", storageCAFile |-> "",
     storageCertSkipVerify |-> FALSE, storageCertificate |-> "nil",
     getAllPageSize |-> 0]

(***************************************************************************)
(* base64.StdEncoding.DecodeString, on a string given as the sequence of   *)
(* its characters                                                          *)
(***************************************************************************)
Upper == <<"A","B","C","D","E","F","G","H","I","J","K","L","M",
           "N","O","P","Q","R","S","T","U","V","W","X","Y","Z">>
Lower == <<"a","b","c","d","e","f","g","h","i","j","k","l","m",
           "n","o","p","q","r","s","t","u","v","w","x","y","z">>
Digits == <<"0","1","2","3","4","5","6","7","8","9">>
\* the standard alphabet: the character of value v is StdAlphabet[v + 1]
StdAlphabet == Upper \o Lower \o Digits \o <<"+", "/">>
PadChar == "="

InAlphabet(c) == \E i \in 1..Len(StdAlphabet) : StdAlphabet[i] = c

\* the 6-bit value of an alphabet character (0 for the padding character)
B64Value(c) ==
    IF InAlphabet(c)
    THEN (CHOOSE i \in 1..Len(StdAlphabet) : StdAlphabet[i] = c) - 1
    ELSE 0

\* the decoder skips '\r' and '\n'
StripNewlines(s) == SelectSeq(s, LAMBDA c : c \notin {"\n", "\r"})

\* the input is well formed: whole quanta of four characters, every
\* character of the alphabet except one or two padding characters that end
\* the last quantum
B64WellFormed(t) ==
    /\ Len(t) % 4 = 0
    /\ \A i \in 1..Len(t) :
         \/ InAlphabet(t[i])
         \/ t[i] = PadChar /\ i = Len(t) /\ i > 2
         \/ t[i] = PadChar /\ i = Len(t) - 1 /\ i > 2 /\ t[Len(t)] = PadChar

B64Pads(t) == Cardinality({i \in 1..Len(t) : t[i] = PadChar})

\* byte k of the decoding of t (trailing bits of a padded quantum dropped)
B64Byte(t, k) ==
    LET g == 4 * ((k - 1) \div 3)
        v1 == B64Value(t[g + 1])
        v2 == B64Value(t[g + 2])
        v3 == B64Value(t[g + 3])
        v4 == B64Value(t[g + 4])
    IN  CASE (k - 1) % 3 = 0 -> v1 * 4 + (v2 \div 16)
          [] (k - 1) % 3 = 1 -> (v2 % 16) * 16 + (v3 \div 4)
          [] OTHER -> (v3 % 4) * 64 + v4

\* (key, err) of DecodeString(s)
DecodeString(s) ==
    LET t == StripNewlines(s)
    IN  IF B64WellFormed(t)
        THEN [err |-> FALSE,
              key |-> [k \in 1..(3 * (Len(t) \div 4) - B64Pads(t)) |->
                          B64Byte(t, k)]]
        ELSE [err |-> TRUE, key |-> <<>>]

(***************************************************************************)
(* The ServerOptions (config.go:45-116); cfg is the accumulator            *)
(***************************************************************************)
\* cryptutil.DefaultKeySize
DefaultKeySize == 32
\* time.Hour, durations counted in seconds
DefaultDeletePermanentlyAfter == 3600
DefaultStorageType == "memory"
DefaultGetAllPageSize == 50

WithDeletePermanentlyAfter(dur, cfg) ==
    [cfg EXCEPT !.deletePermanentlyAfter = dur]

WithGetAllPageSize(pageSize, cfg) == [cfg EXCEPT !.getAllPageSize = pageSize]

WithInstallationID(id, cfg) == [cfg EXCEPT !.installationID = id]

\* the length of the decoded key left unchecked
KeyAcceptedAnyLength(sharedKey) == ~DecodeString(sharedKey).err

\* line 75, negated: the key decoded and has the required length
KeyAccepted(sharedKey) ==
    /\ ~DecodeString(sharedKey).err
    /\ Len(DecodeString(sharedKey).key) = DefaultKeySize

\* a rejected key clearing the secret
WithSharedKeyResetOnError(sharedKey, cfg) ==
    IF ~KeyAccepted(sharedKey)
    THEN [cfg EXCEPT !.secret = NoSecret]
    ELSE [cfg EXCEPT !.secret =
              [set |-> TRUE, bytes |-> DecodeString(sharedKey).key]]

WithSharedKey(sharedKey, cfg) ==
    IF ~KeyAccepted(sharedKey)
    THEN cfg
    ELSE [cfg EXCEPT !.secret =
              [set |-> TRUE, bytes |-> DecodeString(sharedKey).key]]

\* a storage type that is set only while the field is empty
WithStorageTypeIfUnset(typ, cfg) ==
    IF cfg.storageType = "" THEN [cfg EXCEPT !.storageType = typ] ELSE cfg

WithStorageType(typ, cfg) == [cfg EXCEPT !.storageType = typ]

WithStorageConnectionString(connStr, cfg) ==
    [cfg EXCEPT !.storageConnectionString = connStr]

WithStorageCAFile(filePath, cfg) == [cfg EXCEPT !.storageCAFile = filePath]

WithStorageCertSkipVerify(skip, cfg) ==
    [cfg EXCEPT !.storageCertSkipVerify = skip]

WithStorageCertificate(certificate, cfg) ==
    [cfg EXCEPT !.storageCertificate = certificate]

\* an option value: its constructor and the argument it closed over
Opt(kind, str, num, flag, key) ==
    [kind |-> kind, str |-> str, num |-> num, flag |-> flag, key |-> key]

\* option(cfg)
ApplyOption(o, cfg) ==
    CASE o.kind = "WithDeletePermanentlyAfter" ->
            WithDeletePermanentlyAfter(o.num, cfg)
      [] o.kind = "WithGetAllPageSize" -> WithGetAllPageSize(o.num, cfg)
      [] o.kind = "WithInstallationID" -> WithInstallationID(o.str, cfg)
      [] o.kind = "WithSharedKey" -> WithSharedKey(o.key, cfg)
      [] o.kind = "WithStorageType" -> WithStorageType(o.str, cfg)
      [] o.kind = "WithStorageConnectionString" ->
            WithStorageConnectionString(o.str, cfg)
      [] o.kind = "WithStorageCAFile" -> WithStorageCAFile(o.str, cfg)
      [] o.kind = "WithStorageCertSkipVerify" ->
            WithStorageCertSkipVerify(o.flag, cfg)
      [] o.kind = "WithStorageCertificate" ->
            WithStorageCertificate(o.str, cfg)

(***************************************************************************)
(* The options newServerConfig is called with                              *)
(***************************************************************************)
Rep(c, n) == [i \in 1..n |-> c]

\* 32 bytes 0x00
KeyZeros == Rep("A", 43) \o <<"=">>
\* 32 bytes 0xff
KeyOnes == Rep("/", 43) \o <<"=">>
\* 33 bytes
KeyTooLong == Rep("A", 44)
\* 31 bytes
KeyTooShort == Rep("A", 42) \o <<"=", "=">>
\* not base64: the padding is missing
KeyUndecodable == Rep("A", 43)

\* not base64: a character outside the alphabet
KeyBadChar == Rep("A", 42) \o <<"!", "=">>
\* 32 bytes 0x00, the encoding followed by a line break
KeyZerosNewline == KeyZeros \o <<"\n">>
\* the empty string: 0 bytes
KeyEmpty == <<>>

SharedKeyInputs == {KeyZeros, KeyOnes, KeyTooLong, KeyTooShort, KeyUndecodable,
                    KeyBadChar, KeyZerosNewline, KeyEmpty}

OptionValues ==
    {Opt("WithSharedKey", "", 0, FALSE, k) : k \in SharedKeyInputs}
    \cup {Opt("WithDeletePermanentlyAfter", "", n, FALSE, <<>>) : n \in {0, 7200}}
    \cup {Opt("WithGetAllPageSize", "", n, FALSE, <<>>) : n \in {0, 100}}
    \cup {Opt("WithInstallationID", s, 0, FALSE, <<>>) : s \in {"id-a", "id-b"}}
    \cup {Opt("WithStorageType", s, 0, FALSE, <<>>) : s \in {"postgres", "redis"}}
    \cup {Opt("WithStorageConnectionString", s, 0, FALSE, <<>>) : s \in {"dsn"}}
    \cup {Opt("WithStorageCAFile", s, 0, FALSE, <<>>) : s \in {"ca.pem"}}
    \cup {Opt("WithStorageCertSkipVerify", "", 0, b, <<>>) : b \in BOOLEAN}
    \cup {Opt("WithStorageCertificate", s, 0, FALSE, <<>>) : s \in {"cert"}}

OptionSeqs == UNION {[1..n -> OptionValues] : n \in 0..MaxOptions}

InitBuilderIdle ==
    /\ options = <<>>
    /\ optIdx = 0
    /\ scfg = ZeroServerConfig
    /\ bpc = "idle"

Init == InitEndpoint /\ InitBuilderIdle

(***************************************************************************)
(* NewMetricsManager (part_000:25-31)                                      *)
(***************************************************************************)
\* line 26-28: mgr := &MetricsManager{}; src.OnConfigChange(mgr.OnConfigChange)
Register ==
    /\ wpc["ctor"] = "new"
    /\ subscribed' = TRUE
    /\ wpc' = [wpc EXCEPT !["ctor"] = "getcfg"]
    /\ UNCHANGED <<mu, installationID, serviceName, addr, basicAuth, handler,
                   srcCfg, changes, wcfg, rpc, req, seenCheck, seenServe,
                   response, buildInfo, emitted, nextId, attempts, lastBuild, stable,
                   completed, lastApplied, snap>>

\* a constructor that returns mgr without applying the configuration
AfterGetConfigReturns == "returned"

\* line 29: the constructor calls mgr.OnConfigChange with the configuration
AfterGetConfig == "lock"

\* line 29: the argument src.GetConfig() of mgr.OnConfigChange
GetConfig ==
    /\ wpc["ctor"] = "getcfg"
    /\ wcfg' = [wcfg EXCEPT !["ctor"] = srcCfg]
    /\ wpc' = [wpc EXCEPT !["ctor"] = AfterGetConfig]
    /\ UNCHANGED <<mu, installationID, serviceName, addr, basicAuth, handler,
                   srcCfg, subscribed, changes, rpc, req, seenCheck, seenServe,
                   response, buildInfo, emitted, nextId, attempts, lastBuild, stable,
                   completed, lastApplied, snap>>

(***************************************************************************)
(* The config source: it replaces its configuration and calls every        *)
(* registered listener synchronously, one change at a time.                *)
(***************************************************************************)
SrcChange(c) ==
    /\ wpc["src"] = "idle"
    /\ changes < MaxChanges
    /\ srcCfg' = c
    /\ changes' = changes + 1
    /\ IF subscribed
       THEN /\ wcfg' = [wcfg EXCEPT !["src"] = c]
            /\ wpc' = [wpc EXCEPT !["src"] = "lock"]
       ELSE UNCHANGED <<wcfg, wpc>>
    /\ UNCHANGED <<mu, installationID, serviceName, addr, basicAuth, handler,
                   subscribed, rpc, req, seenCheck, seenServe, response,
                   buildInfo, emitted, nextId, attempts, lastBuild, stable, completed,
                   lastApplied, snap>>

(***************************************************************************)
(* OnConfigChange (part_000:39-45)                                         *)
(***************************************************************************)
\* line 40: mgr.mu.Lock() announces the writer: it has the mutex's writer
\* lock, which no other Lock call has between its announcement and its
\* Unlock, and from here on RLock calls wait. A call of OnConfigChange
\* that has not come this far excludes nobody.
LockAnnounce(w) ==
    /\ wpc[w] = "lock"
    /\ mu.writer = None
    /\ mu.pending = None
    /\ mu' = [mu EXCEPT !.pending = w]
    /\ wpc' = [wpc EXCEPT ![w] = "wait"]
    /\ UNCHANGED <<installationID, serviceName, addr, basicAuth, handler,
                   srcCfg, subscribed, changes, wcfg, rpc, req, seenCheck,
                   seenServe, response, buildInfo, emitted, nextId, attempts, lastBuild,
                   stable, completed, lastApplied, snap>>

\* a write lock that does not wait for the readers
CanLockDespiteReaders(w) == mu.pending = w

\* mgr.mu.Lock() returns: the announced writer has waited for the readers
\* that held the lock to release it
CanLock(w) == mu.pending = w /\ mu.readers = {}

\* line 40: mgr.mu.Lock() returns
WLock(w) ==
    /\ wpc[w] = "wait"
    /\ CanLock(w)
    /\ mu' = [mu EXCEPT !.writer = w, !.pending = None]
    /\ wpc' = [wpc EXCEPT ![w] = "info"]
    /\ snap' = Fields
    /\ UNCHANGED <<installationID, serviceName, addr, basicAuth, handler,
                   srcCfg, subscribed, changes, wcfg, rpc, req, seenCheck,
                   seenServe, response, buildInfo, emitted, nextId, attempts, lastBuild,
                   stable, completed, lastApplied>>

\* the comparison made against the option instead of the derived name
InfoUnchangedRaw(cfg) == cfg.services = serviceName

\* lines 59-62: the derived service name is the stored one
InfoUnchanged(cfg) == ServiceName(cfg.services) = serviceName

\* an update that a failed os.Hostname() ends
updateInfoStopsOnHostError(cfg, hostOk) ==
    IF InfoUnchanged(cfg) \/ ~hostOk
    THEN UNCHANGED <<buildInfo, emitted, serviceName>>
    ELSE /\ buildInfo' =
                [serviceName |-> ServiceName(cfg.services), hostname |-> "host"]
         /\ emitted' = emitted + 1
         /\ serviceName' = ServiceName(cfg.services)

\* lines 58-72: updateInfo; hostOk is whether os.Hostname() succeeded
updateInfo(cfg, hostOk) ==
    IF InfoUnchanged(cfg)
    THEN UNCHANGED <<buildInfo, emitted, serviceName>>
    ELSE /\ buildInfo' =
                [serviceName |-> ServiceName(cfg.services),
                 hostname |-> IF hostOk THEN "host" ELSE "__unknown__"]
         /\ emitted' = emitted + 1
         /\ serviceName' = ServiceName(cfg.services)

\* line 43: mgr.updateInfo(cfg)
UpdateInfo(w) ==
    /\ wpc[w] = "info"
    /\ \E hostOk \in BOOLEAN : updateInfo(wcfg[w], hostOk)
    /\ wpc' = [wpc EXCEPT ![w] = "server"]
    /\ UNCHANGED <<mu, installationID, addr, basicAuth, handler, srcCfg,
                   subscribed, changes, wcfg, rpc, req, seenCheck, seenServe,
                   response, nextId, attempts, lastBuild, stable, completed,
                   lastApplied, snap>>

\* the comparison of the bind address alone
TripleUnchangedAddrOnly(cfg) == cfg.addr = addr

\* the installation id compared with the wrong field
TripleUnchangedWrongField(cfg) ==
    /\ cfg.addr = addr
    /\ cfg.basicAuth = basicAuth
    /\ cfg.installationID = serviceName

\* an unchanged triple taken as changed while no handler is set
TripleUnchangedAndHandlerSet(cfg) ==
    /\ cfg.addr = addr
    /\ cfg.basicAuth = basicAuth
    /\ cfg.installationID = installationID
    /\ handler # NilHandler

\* lines 75-77: the triple of cfg is the stored triple
TripleUnchanged(cfg) ==
    /\ cfg.addr = addr
    /\ cfg.basicAuth = basicAuth
    /\ cfg.installationID = installationID

\* the previous handler left in place
KeptHandler == handler

\* line 84: mgr.handler = nil
ClearedHandler == NilHandler

\* the handler constructed whatever the bind address
AfterStoreAlwaysBuild(cfg) == "build"

\* lines 86-89: an empty bind address disables the server
AfterStore(cfg) == IF cfg.addr = "" THEN "unlock" ELSE "build"

\* lines 75-89 of updateServer: compare, store the triple, clear the handler
UpdateServerStore(w) ==
    /\ wpc[w] = "server"
    /\ IF TripleUnchanged(wcfg[w])
       THEN /\ wpc' = [wpc EXCEPT ![w] = "unlock"]
            /\ UNCHANGED <<addr, basicAuth, installationID, handler>>
       ELSE /\ addr' = wcfg[w].addr
            /\ basicAuth' = wcfg[w].basicAuth
            /\ installationID' = wcfg[w].installationID
            /\ handler' = ClearedHandler
            /\ wpc' = [wpc EXCEPT ![w] = AfterStore(wcfg[w])]
    /\ UNCHANGED <<mu, serviceName, srcCfg, subscribed, changes, wcfg, rpc,
                   req, seenCheck, seenServe, response, buildInfo, emitted, nextId,
                   attempts, lastBuild, stable, completed, lastApplied, snap>>

\* the handler installed without the middleware
WrapHandlerNever(cfg, h) == h

\* lines 97-99: the handler wrapped when cfg carries credentials
WrapHandler(cfg, h) ==
    IF GetMetricsBasicAuth(cfg.basicAuth).ok
    THEN RequireBasicAuth(GetMetricsBasicAuth(cfg.basicAuth).username,
                          GetMetricsBasicAuth(cfg.basicAuth).password, h)
    ELSE h

\* lines 91-101 of updateServer: construct the handler and install it;
\* ok is whether metrics.PrometheusHandler succeeded
UpdateServerBuild(w) ==
    /\ wpc[w] = "build"
    /\ attempts' = attempts + 1
    /\ \E ok \in BOOLEAN :
         IF ok
         THEN /\ handler' = WrapHandler(wcfg[w],
                                PrometheusHandler(nextId, installationID))
              /\ nextId' = nextId + 1
              /\ lastBuild' = "ok"
         ELSE /\ lastBuild' = "failed"
              /\ UNCHANGED <<handler, nextId>>
    /\ wpc' = [wpc EXCEPT ![w] = "unlock"]
    /\ UNCHANGED <<mu, installationID, serviceName, addr, basicAuth, srcCfg,
                   subscribed, changes, wcfg, rpc, req, seenCheck, seenServe,
                   response, buildInfo, emitted, stable, completed, lastApplied, snap>>

\* an Unlock that the return of lines 86-89 skips
HolderAfterReturnNotDeferred(w) == IF addr = "" THEN w ELSE None

\* line 41: the Unlock is deferred, so every return releases the lock
HolderAfterReturn(w) == None

\* line 41: defer mgr.mu.Unlock(), and the return to the caller
WUnlock(w) ==
    /\ wpc[w] = "unlock"
    /\ mu' = [mu EXCEPT !.writer = HolderAfterReturn(w)]
    /\ wpc' = [wpc EXCEPT ![w] = IF w = "ctor" THEN "returned" ELSE "idle"]
    /\ wcfg' = [wcfg EXCEPT ![w] = NoCfg]
    /\ completed' = completed + 1
    /\ lastApplied' = wcfg[w]
    /\ stable' = handler
    /\ snap' = NoSnap
    /\ UNCHANGED <<installationID, serviceName, addr, basicAuth, handler,
                   srcCfg, subscribed, changes, rpc, req, seenCheck, seenServe,
                   response, buildInfo, emitted, nextId, attempts, lastBuild>>

(***************************************************************************)
(* ServeHTTP (part_000:47-56)                                              *)
(***************************************************************************)
\* a caller holds mgr once NewMetricsManager has returned it
Issue(r, q) ==
    /\ rpc[r] = "idle"
    /\ wpc["ctor"] = "returned"
    /\ req' = [req EXCEPT ![r] = q]
    /\ rpc' = [rpc EXCEPT ![r] = "rlock"]
    /\ UNCHANGED <<mu, installationID, serviceName, addr, basicAuth, handler,
                   srcCfg, subscribed, changes, wpc, wcfg, seenCheck,
                   seenServe, response, buildInfo, emitted, nextId, attempts, lastBuild,
                   stable, completed, lastApplied, snap>>

\* a read lock that does not wait for the writer
CanRLockDespiteWriter(r) == TRUE

\* mgr.mu.RLock() returns: no writer holds the lock and none has announced
\* itself (an announced Lock call excludes new readers)
CanRLock(r) == mu.writer = None /\ mu.pending = None

\* line 48: mgr.mu.RLock()
RLock(r) ==
    /\ rpc[r] = "rlock"
    /\ CanRLock(r)
    /\ mu' = [mu EXCEPT !.readers = @ \cup {r}]
    /\ rpc' = [rpc EXCEPT ![r] = "check"]
    /\ UNCHANGED <<installationID, serviceName, addr, basicAuth, handler,
                   srcCfg, subscribed, changes, wpc, wcfg, req, seenCheck,
                   seenServe, response, buildInfo, emitted, nextId, attempts, lastBuild,
                   stable, completed, lastApplied, snap>>

\* the nil check left out
IsNilNever(h) == FALSE

\* line 51: mgr.handler == nil
IsNil(h) == h = NilHandler

\* lines 51-54: if mgr.handler == nil { http.NotFound(w, r); return }
ServeCheck(r) ==
    /\ rpc[r] = "check"
    /\ seenCheck' = [seenCheck EXCEPT ![r] = handler]
    /\ IF IsNil(handler)
       THEN /\ response' = [response EXCEPT ![r] = NotFound]
            /\ rpc' = [rpc EXCEPT ![r] = "runlock"]
       ELSE /\ rpc' = [rpc EXCEPT ![r] = "serve"]
            /\ UNCHANGED response
    /\ UNCHANGED <<mu, installationID, serviceName, addr, basicAuth, handler,
                   srcCfg, subscribed, changes, wpc, wcfg, req, seenServe,
                   buildInfo, emitted, nextId, attempts, lastBuild, stable, completed,
                   lastApplied, snap>>

\* line 55: mgr.handler.ServeHTTP(w, r)
ServeDelegate(r) ==
    /\ rpc[r] = "serve"
    /\ seenServe' = [seenServe EXCEPT ![r] = handler]
    /\ response' = [response EXCEPT ![r] = HandlerServeHTTP(handler, req[r])]
    /\ rpc' = [rpc EXCEPT ![r] = "runlock"]
    /\ UNCHANGED <<mu, installationID, serviceName, addr, basicAuth, handler,
                   srcCfg, subscribed, changes, wpc, wcfg, req, seenCheck,
                   buildInfo, emitted, nextId, attempts, lastBuild, stable, completed,
                   lastApplied, snap>>

\* line 49: defer mgr.mu.RUnlock(); the response has been written
RUnlock(r) ==
    /\ rpc[r] = "runlock"
    /\ mu' = [mu EXCEPT !.readers = @ \ {r}]
    /\ rpc' = [rpc EXCEPT ![r] = "idle"]
    /\ req' = [req EXCEPT ![r] = NoAuthRequest]
    /\ seenCheck' = [seenCheck EXCEPT ![r] = NilHandler]
    /\ seenServe' = [seenServe EXCEPT ![r] = NilHandler]
    /\ response' = [response EXCEPT ![r] = NoResponse]
    /\ UNCHANGED <<installationID, serviceName, addr, basicAuth, handler,
                   srcCfg, subscribed, changes, wpc, wcfg, buildInfo, emitted, nextId,
                   attempts, lastBuild, stable, completed, lastApplied, snap>>

NextEndpoint ==
    \/ Register
    \/ GetConfig
    \/ \E c \in Configs : SrcChange(c)
    \/ \E w \in Writers : LockAnnounce(w)
    \/ \E w \in Writers : WLock(w)
    \/ \E w \in Writers : UpdateInfo(w)
    \/ \E w \in Writers : UpdateServerStore(w)
    \/ \E w \in Writers : UpdateServerBuild(w)
    \/ \E w \in Writers : WUnlock(w)
    \/ \E r \in Readers, q \in Requests : Issue(r, q)
    \/ \E r \in Readers : RLock(r)
    \/ \E r \in Readers : ServeCheck(r)
    \/ \E r \in Readers : ServeDelegate(r)
    \/ \E r \in Readers : RUnlock(r)

Next == NextEndpoint /\ UNCHANGED bvars

Spec == Init /\ [][Next]_vars

(***************************************************************************)
(* Scheduling: a goroutine inside OnConfigChange or ServeHTTP keeps        *)
(* running; the source and the clients need not do anything                *)
(***************************************************************************)
\* the steps of OnConfigChange in goroutine w (lines 39-45)
WriterProgress(w) ==
    /\ \/ LockAnnounce(w)
       \/ WLock(w)
       \/ UpdateInfo(w)
       \/ UpdateServerStore(w)
       \/ UpdateServerBuild(w)
       \/ WUnlock(w)
    /\ UNCHANGED bvars

\* the steps of ServeHTTP in goroutine r (lines 47-56)
ReaderProgress(r) ==
    /\ \/ RLock(r)
       \/ ServeCheck(r)
       \/ ServeDelegate(r)
       \/ RUnlock(r)
    /\ UNCHANGED bvars

SpecFair ==
    /\ Spec
    /\ \A w \in Writers : WF_vars(WriterProgress(w))
    /\ \A r \in Readers : WF_vars(ReaderProgress(r))

(***************************************************************************)
(* newServerConfig (config.go:34-43)                                       *)
(***************************************************************************)
InitCfg ==
    /\ InitEndpoint
    /\ srcCfg = [services |-> "all", addr |-> "", basicAuth |-> NoCred,
                 installationID |-> "i1"]
    /\ options \in OptionSeqs
    /\ optIdx = 0
    /\ scfg = ZeroServerConfig
    /\ bpc = "start"

\* the storage type default left out
ApplyDefaultsNoStorageType ==
    /\ bpc = "start"
    /\ scfg' = WithGetAllPageSize(DefaultGetAllPageSize,
                   WithDeletePermanentlyAfter(DefaultDeletePermanentlyAfter,
                     ZeroServerConfig))
    /\ optIdx' = 1
    /\ bpc' = "loop"
    /\ UNCHANGED options

\* the page size default left out
ApplyDefaultsNoPageSize ==
    /\ bpc = "start"
    /\ scfg' = WithStorageType(DefaultStorageType,
                   WithDeletePermanentlyAfter(DefaultDeletePermanentlyAfter,
                     ZeroServerConfig))
    /\ optIdx' = 1
    /\ bpc' = "loop"
    /\ UNCHANGED options

\* lines 35-38: cfg := new(serverConfig) and the three defaults
ApplyDefaults ==
    /\ bpc = "start"
    /\ scfg' = WithGetAllPageSize(DefaultGetAllPageSize,
                 WithStorageType(DefaultStorageType,
                   WithDeletePermanentlyAfter(DefaultDeletePermanentlyAfter,
                     ZeroServerConfig)))
    /\ optIdx' = 1
    /\ bpc' = "loop"
    /\ UNCHANGED options

\* a loop that a rejected shared key ends
ApplyNextOptionStopsOnReject ==
    /\ bpc = "loop"
    /\ optIdx <= Len(options)
    /\ scfg' = ApplyOption(options[optIdx], scfg)
    /\ optIdx' = IF /\ options[optIdx].kind = "WithSharedKey"
                    /\ ~KeyAccepted(options[optIdx].key)
                 THEN Len(options) + 1
                 ELSE optIdx + 1
    /\ UNCHANGED <<options, bpc>>

\* lines 39-41: one iteration of the loop, option(cfg)
ApplyNextOption ==
    /\ bpc = "loop"
    /\ optIdx <= Len(options)
    /\ scfg' = ApplyOption(options[optIdx], scfg)
    /\ optIdx' = optIdx + 1
    /\ UNCHANGED <<options, bpc>>

\* line 42: return cfg
ReturnConfig ==
    /\ bpc = "loop"
    /\ optIdx > Len(options)
    /\ bpc' = "done"
    /\ UNCHANGED <<options, optIdx, scfg>>

NextCfg ==
    /\ \/ ApplyDefaults
       \/ ApplyNextOption
       \/ ReturnConfig
    /\ UNCHANGED evars

SpecCfg == InitCfg /\ [][NextCfg]_vars

(***************************************************************************)
(* Properties of the metrics endpoint, checked under Spec                  *)
(***************************************************************************)
\* request r is inside ServeHTTP's critical section
InCS(r) == rpc[r] \in {"check", "serve", "runlock"}

\* request r carries the credentials the stored basic-auth string names
Authorized(r) ==
    /\ req[r].present
    /\ req[r].username = GetMetricsBasicAuth(basicAuth).username
    /\ req[r].password = GetMetricsBasicAuth(basicAuth).password

\* handler h was built from the stored installation id and basic-auth string
BuiltFromStored(h) ==
    /\ h.installationID = installationID
    /\ h.wrapped = (basicAuth # <<>>)
    /\ h.wrapped => /\ h.username = GetMetricsBasicAuth(basicAuth).username
                    /\ h.password = GetMetricsBasicAuth(basicAuth).password

\* C1: a request is served entirely against one handler value, the one
\* stored when the last configuration change completed: while it is inside
\* ServeHTTP no OnConfigChange is inside its critical section, both of its
\* reads of mgr.handler return that value, and a handler it is served by
\* was built from the stored installation id and basic-auth string.
C1_RequestSeesOneCommittedHandler ==
    \A r \in Readers :
        InCS(r) =>
            /\ mu.writer = None
            /\ \A w \in Writers : wpc[w] \notin {"info", "server", "build", "unlock"}
            /\ handler = stable
            /\ rpc[r] \in {"serve", "runlock"} => seenCheck[r] = stable
            /\ (rpc[r] = "runlock" /\ seenCheck[r] # NilHandler) =>
                   /\ seenServe[r] = seenCheck[r]
                   /\ BuiltFromStored(seenServe[r])

\* a request has been served by a handler while a configuration change
\* with a different triple waits for the lock
C1_Witness ==
    \E r \in Readers, w \in Writers :
        /\ rpc[r] = "runlock"
        /\ response[r].status = 200
        /\ wpc[w] = "lock"
        /\ ~TripleUnchanged(wcfg[w])

\* C2 as stated: outside the critical section the handler is unset if and
\* only if the stored bind address is empty.
C2_UnsetIffEmptyAddr ==
    mu.writer = None => ((handler = NilHandler) <=> (addr = ""))

\* C2, amended: outside the critical section the handler is unset if and
\* only if the stored bind address is empty or the construction of the
\* handler for the stored configuration failed; so a change from an empty
\* to a non-empty bind address whose construction succeeds makes the
\* handler set, and requests then no longer receive not-found.
C2_UnsetIffEmptyAddrOrFailed ==
    /\ mu.writer = None =>
         ((handler = NilHandler) <=> (addr = "" \/ lastBuild = "failed"))
    /\ \A r \in Readers :
         rpc[r] = "runlock" =>
            ((response[r] = NotFound) <=> (addr = "" \/ lastBuild = "failed"))

\* the source went from an empty to a non-empty bind address, the change
\* was applied and a request is answered by the handler
C2_Witness ==
    \E r \in Readers :
        /\ rpc[r] = "runlock"
        /\ completed = 2
        /\ attempts = 1
        /\ addr # ""
        /\ handler # NilHandler
        /\ response[r].status # 404

\* C3: once the last applied configuration has an empty bind address, the
\* handler is unset and a request receives not-found, whatever the other
\* settings and whatever was applied before.
C3_EmptyAddrNotFound ==
    (mu.writer = None /\ completed > 0 /\ lastApplied.addr = "") =>
        /\ handler = NilHandler
        /\ \A r \in Readers : rpc[r] = "runlock" => response[r] = NotFound

\* a handler had been built, then a configuration with an empty bind
\* address and credentials was applied, and a request received not-found
C3_Witness ==
    \E r \in Readers :
        /\ rpc[r] = "runlock"
        /\ response[r] = NotFound
        /\ nextId > 1
        /\ lastApplied.addr = ""
        /\ lastApplied.basicAuth # <<>>
        /\ mu.writer = None

\* C4: an OnConfigChange whose configuration is the one the previous call
\* applied changes nothing at any point of its critical section: no build
\* info is emitted, no handler is constructed, and the handler, service
\* name, bind address, basic-auth and installation id stay what they were
\* when it took the lock.
C4_Idempotent ==
    \A w \in Writers :
        (mu.writer = w /\ wcfg[w] = lastApplied) => Fields = snap

\* a second call with the configuration just applied is about to return,
\* with a handler set
C4_Witness ==
    \E w \in Writers :
        /\ wpc[w] = "unlock"
        /\ wcfg[w] = lastApplied
        /\ handler # NilHandler
        /\ emitted > 0

\* C5: when the stored basic-auth string is non-empty and a handler is
\* set, the handler is the Basic-Auth-wrapped one for those credentials: a
\* delegated request without them receives unauthorized and the inner
\* handler is not invoked, a delegated request with them is forwarded to
\* the inner handler.
C5_BasicAuthEnforced ==
    (basicAuth # <<>>) =>
        /\ handler # NilHandler =>
              /\ handler.wrapped
              /\ handler.username = GetMetricsBasicAuth(basicAuth).username
              /\ handler.password = GetMetricsBasicAuth(basicAuth).password
        /\ \A r \in Readers :
              (rpc[r] = "runlock" /\ seenCheck[r] # NilHandler) =>
                  IF Authorized(r)
                  THEN response[r] = [status |-> 200, inner |-> seenServe[r].id]
                  ELSE response[r] = [status |-> 401, inner |-> 0]

\* with credentials configured, one request was turned away and another,
\* carrying them, reached the inner handler
C5_Witness ==
    \E r1, r2 \in Readers :
        /\ basicAuth # <<>>
        /\ rpc[r1] = "runlock" /\ response[r1].status = 401
        /\ rpc[r2] = "runlock" /\ response[r2].status = 200
        /\ req[r2].present

\* the running OnConfigChange of w attempted a construction, which failed
FailedIn(w) ==
    /\ mu.writer = w
    /\ wpc[w] = "unlock"
    /\ attempts > snap.attempts
    /\ lastBuild = "failed"

\* after a failed construction: the triple is stored, the handler unset
C6_State ==
    /\ \A w \in Writers :
          FailedIn(w) => /\ TripleUnchanged(wcfg[w])
                         /\ handler = NilHandler
    /\ lastBuild = "failed" =>
          /\ handler = NilHandler
          /\ \A r \in Readers : rpc[r] = "runlock" => response[r] = NotFound

\* the failed call returns releasing the lock; only a successful
\* construction inside OnConfigChange sets the handler again
C6_Step ==
    /\ \A w \in Writers :
          (FailedIn(w) /\ wpc'[w] # wpc[w]) =>
              /\ mu'.writer = None
              /\ completed' = completed + 1
              /\ handler' = NilHandler
    /\ (lastBuild = "failed" /\ handler' # NilHandler) =>
          /\ lastBuild' = "ok"
          /\ \E w \in Writers : mu.writer = w /\ wpc[w] = "build"
    /\ attempts' # attempts =>
          \E w \in Writers : mu.writer = w /\ wpc[w] = "build"

\* C6: when the construction fails, the OnConfigChange call has stored the
\* new triple, leaves the handler unset and returns releasing the lock;
\* from then on the handler is unset and requests receive not-found until
\* an OnConfigChange constructs a handler successfully, and a construction
\* is only ever attempted inside OnConfigChange.
C6_FailedBuildServesNotFound == [](C6_State) /\ [][C6_Step]_vars

\* after a failed construction for a non-empty bind address a request
\* received not-found
C6_Witness ==
    \E r \in Readers :
        /\ rpc[r] = "runlock"
        /\ lastBuild = "failed"
        /\ addr # ""
        /\ response[r] = NotFound

\* C7: NewMetricsManager registers the listener before it reads the
\* configuration, and has run OnConfigChange to completion when it
\* returns; so a request is answered from a state an OnConfigChange
\* produced, never from the zero-initialised one.
C7_ConstructorAppliesConfig ==
    /\ wpc["ctor"] # "new" => subscribed
    /\ wpc["ctor"] = "returned" => (completed >= 1 /\ serviceName # "")
    /\ \A r \in Readers :
          rpc[r] # "idle" => /\ wpc["ctor"] = "returned"
                             /\ completed >= 1
                             /\ serviceName # ""

\* a request is answered from the state the constructor's own call left
C7_Witness ==
    \E r \in Readers :
        /\ rpc[r] = "runlock"
        /\ completed = 1
        /\ changes = 0

(***************************************************************************)
(* Properties of newServerConfig, checked under SpecCfg                    *)
(***************************************************************************)
\* the positions of the shared keys among the first n options that are
\* base64 of exactly 32 bytes (RFC 4648)
ValidKeyPositions(n) ==
    {i \in 1..n : /\ options[i].kind = "WithSharedKey"
                  /\ options[i].key \in {KeyZeros, KeyOnes, KeyZerosNewline}}

\* the bytes RFC 4648 gives for the valid inputs
KnownDecoding(k) ==
    IF k = KeyOnes THEN [i \in 1..32 |-> 255] ELSE [i \in 1..32 |-> 0]

\* the secret after the first n options
ExpectedSecret(n) ==
    IF ValidKeyPositions(n) = {}
    THEN NoSecret
    ELSE LET last == CHOOSE i \in ValidKeyPositions(n) :
                        \A j \in ValidKeyPositions(n) : j <= i
         IN  [set |-> TRUE, bytes |-> KnownDecoding(options[last].key)]

\* C8: at every point of the option application the secret is unset or
\* exactly DefaultKeySize bytes long.
C8_SecretLength ==
    scfg.secret.set => Len(scfg.secret.bytes) = DefaultKeySize

\* a configuration was returned with a secret set although a shared key of
\* the wrong length or an undecodable one was among the options
C8_Witness ==
    /\ bpc = "done"
    /\ scfg.secret.set
    /\ \E i \in 1..Len(options) :
          /\ options[i].kind = "WithSharedKey"
          /\ options[i].key \in {KeyTooLong, KeyTooShort, KeyUndecodable,
                                  KeyBadChar, KeyEmpty}

\* C9: after each option the secret is the decoding of the last shared key
\* so far that is base64 of exactly 32 bytes, and unset when there is
\* none: an accepted key replaces the secret by its bytes, a rejected one
\* leaves it as it was.
C9_LastValidKeyWins ==
    bpc \in {"loop", "done"} => scfg.secret = ExpectedSecret(optIdx - 1)

\* a rejected key followed an accepted one and the accepted one is kept
C9_Witness ==
    /\ bpc = "done"
    /\ Len(options) = 2
    /\ options[1] = Opt("WithSharedKey", "", 0, FALSE, KeyOnes)
    /\ options[2] = Opt("WithSharedKey", "", 0, FALSE, KeyTooShort)
    /\ scfg.secret = [set |-> TRUE, bytes |-> [i \in 1..32 |-> 255]]

\* C10: newServerConfig() with no options returns storage type "memory",
\* a retention of one hour (3600 s), page size 50, no secret and every
\* other field at its zero value.
C10_Defaults ==
    (bpc = "done" /\ options = <<>>) =>
        scfg = [installationID |-> "", deletePermanentlyAfter |-> 3600,
                secret |-> [set |-> FALSE, bytes |-> <<>>],
                storageType |-> "memory", storageConnectionString |-> "",
                storageCAFile |-> "", storageCertSkipVerify |-> FALSE,
                storageCertificate |-> "nil", getAllPageSize |-> 50]

\* newServerConfig() has returned
C10_Witness == bpc = "done" /\ options = <<>> /\ scfg.getAllPageSize = 50

\* the positions among the first n options of the options of a kind
PositionsOf(kind, n) == {i \in 1..n : options[i].kind = kind}

\* the last option of a kind among the first n (there is one)
LastOf(kind, n) ==
    options[CHOOSE i \in PositionsOf(kind, n) :
                \A j \in PositionsOf(kind, n) : j <= i]

\* C11: after each option, every unconditional field holds the argument of
\* the last option so far that targets it, and the hardcoded default (or
\* the zero value) when none does; so a caller's option overrides a
\* default.
C11_LastWriteWins ==
    bpc \in {"loop", "done"} =>
        LET n == optIdx - 1
            Has(kind) == PositionsOf(kind, n) # {}
        IN  /\ scfg.installationID =
                 IF Has("WithInstallationID")
                 THEN LastOf("WithInstallationID", n).str ELSE ""
            /\ scfg.storageType =
                 IF Has("WithStorageType")
                 THEN LastOf("WithStorageType", n).str ELSE "memory"
            /\ scfg.storageConnectionString =
                 IF Has("WithStorageConnectionString")
                 THEN LastOf("WithStorageConnectionString", n).str ELSE ""
            /\ scfg.storageCAFile =
                 IF Has("WithStorageCAFile")
                 THEN LastOf("WithStorageCAFile", n).str ELSE ""
            /\ scfg.storageCertSkipVerify =
                 IF Has("WithStorageCertSkipVerify")
                 THEN LastOf("WithStorageCertSkipVerify", n).flag ELSE FALSE
            /\ scfg.storageCertificate =
                 IF Has("WithStorageCertificate")
                 THEN LastOf("WithStorageCertificate", n).str ELSE "nil"
            /\ scfg.deletePermanentlyAfter =
                 IF Has("WithDeletePermanentlyAfter")
                 THEN LastOf("WithDeletePermanentlyAfter", n).num ELSE 3600
            /\ scfg.getAllPageSize =
                 IF Has("WithGetAllPageSize")
                 THEN LastOf("WithGetAllPageSize", n).num ELSE 50

\* two storage types were given and the second one is returned
C11_Witness ==
    /\ bpc = "done"
    /\ Len(options) = 2
    /\ options[1].kind = "WithStorageType"
    /\ options[2].kind = "WithStorageType"
    /\ options[1].str # options[2].str
    /\ scfg.storageType = options[2].str

\* C12 as stated: whatever the options, the retention and the page size of
\* the returned configuration are greater than 0.
C12_AlwaysPositive ==
    bpc = "done" =>
        (scfg.deletePermanentlyAfter > 0 /\ scfg.getAllPageSize > 0)

\* C12, amended: the retention of the returned configuration is greater
\* than 0 unless the last WithDeletePermanentlyAfter option carries a
\* duration that is not, and its page size is greater than 0 unless the
\* last WithGetAllPageSize option carries a size that is not.
C12_PositiveUnlessSetOtherwise ==
    bpc = "done" =>
        LET n == Len(options)
        IN  /\ scfg.deletePermanentlyAfter > 0 <=>
                 (PositionsOf("WithDeletePermanentlyAfter", n) # {} =>
                      LastOf("WithDeletePermanentlyAfter", n).num > 0)
            /\ scfg.getAllPageSize > 0 <=>
                 (PositionsOf("WithGetAllPageSize", n) # {} =>
                      LastOf("WithGetAllPageSize", n).num > 0)

\* a retention of 0 was given, then a positive one, and the page size was
\* left to its default: both are positive in the returned configuration
C12_Witness ==
    /\ bpc = "done"
    /\ Len(options) = 2
    /\ options[1] = Opt("WithDeletePermanentlyAfter", "", 0, FALSE, <<>>)
    /\ options[2] = Opt("WithDeletePermanentlyAfter", "", 7200, FALSE, <<>>)
    /\ scfg.deletePermanentlyAfter > 0
    /\ scfg.getAllPageSize > 0

\* the field an option targets
FieldOf(kind) ==
    CASE kind = "WithDeletePermanentlyAfter" -> "deletePermanentlyAfter"
      [] kind = "WithGetAllPageSize" -> "getAllPageSize"
      [] kind = "WithInstallationID" -> "installationID"
      [] kind = "WithSharedKey" -> "secret"
      [] kind = "WithStorageType" -> "storageType"
      [] kind = "WithStorageConnectionString" -> "storageConnectionString"
      [] kind = "WithStorageCAFile" -> "storageCAFile"
      [] kind = "WithStorageCertSkipVerify" -> "storageCertSkipVerify"
      [] kind = "WithStorageCertificate" -> "storageCertificate"

\* a shared key option whose input is not base64 of exactly 32 bytes
RejectedKey(o) ==
    /\ o.kind = "WithSharedKey"
    /\ o.key \in {KeyTooLong, KeyTooShort, KeyUndecodable, KeyBadChar, KeyEmpty}

\* the configuration newServerConfig returns for the options opts
RECURSIVE Built(_)
Built(opts) ==
    IF opts = <<>>
    THEN [installationID |-> "", deletePermanentlyAfter |-> 3600,
          secret |-> [set |-> FALSE, bytes |-> <<>>],
          storageType |-> "memory", storageConnectionString |-> "",
          storageCAFile |-> "", storageCertSkipVerify |-> FALSE,
          storageCertificate |-> "nil", getAllPageSize |-> 50]
    ELSE ApplyOption(opts[Len(opts)], Built(SubSeq(opts, 1, Len(opts) - 1)))

\* the returned configuration is the one built without the rejected keys
C18_State ==
    bpc = "done" =>
        /\ optIdx = Len(options) + 1
        /\ scfg = Built(SelectSeq(options, LAMBDA o : ~RejectedKey(o)))

\* an iteration of the loop applies one option, which changes no field but
\* its own, and no field at all when it is a rejected shared key
C18_Step ==
    (bpc = "loop" /\ optIdx' # optIdx) =>
        /\ optIdx' = optIdx + 1
        /\ \A f \in DOMAIN scfg \ {FieldOf(options[optIdx].kind)} :
              scfg'[f] = scfg[f]
        /\ RejectedKey(options[optIdx]) => scfg' = scfg

\* C18: each option changes at most its own field of the accumulator; a
\* rejected WithSharedKey changes none, and the options after it are still
\* applied, so the returned configuration is the one the sequence without
\* the rejected option gives.
C18_OptionsAreFramed == [](C18_State) /\ [][C18_Step]_vars

\* a shared key was rejected and the option after it was applied
C18_Witness ==
    /\ bpc = "done"
    /\ Len(options) = 2
    /\ RejectedKey(options[1])
    /\ options[2].kind = "WithInstallationID"
    /\ scfg.installationID = options[2].str
    /\ ~scfg.secret.set

(***************************************************************************)
(* Further properties of the metrics endpoint, checked under Spec          *)
(***************************************************************************)
\* writer w is inside OnConfigChange's critical section
WriterInCS(w) == wpc[w] \in {"info", "server", "build", "unlock"}

CfgTriple(c) == <<c.addr, c.basicAuth, c.installationID>>
StoredTriple == <<addr, basicAuth, installationID>>
SnapTriple == <<snap.addr, snap.basicAuth, snap.installationID>>

\* the last build info carries the stored service name
C13_State ==
    IF emitted = 0
    THEN buildInfo = NoBuildInfo /\ serviceName = ""
    ELSE /\ buildInfo.serviceName = serviceName
         /\ buildInfo.hostname \in {"host", "__unknown__"}

\* updateInfo emits exactly when the derived name differs from the stored
\* one, stores it, and is followed by updateServer; nothing else emits
C13_Step ==
    /\ \A w \in Writers :
          (wpc[w] = "info" /\ wpc'[w] # "info") =>
              /\ wpc'[w] = "server"
              /\ IF ServiceName(wcfg[w].services) # serviceName
                 THEN /\ emitted' = emitted + 1
                      /\ buildInfo'.serviceName = ServiceName(wcfg[w].services)
                      /\ buildInfo'.serviceName # buildInfo.serviceName
                      /\ serviceName' = ServiceName(wcfg[w].services)
                 ELSE /\ emitted' = emitted
                      /\ buildInfo' = buildInfo
                      /\ serviceName' = serviceName
    /\ (emitted' # emitted \/ buildInfo' # buildInfo
                           \/ serviceName' # serviceName) =>
          \E w \in Writers : mu.writer = w /\ wpc[w] = "info"

\* C13: OnConfigChange emits build info exactly when the service name
\* derived from the configuration differs from the stored one, and then
\* stores the derived name, so two consecutive emissions never carry the
\* same name; a failed hostname resolution does not prevent it: the metric
\* is emitted with "__unknown__", the name is stored and updateServer runs.
C13_BuildInfoOnNameChange == [](C13_State) /\ [][C13_Step]_vars

\* the only call so far could not resolve the hostname: the build info
\* carries "__unknown__", the name is stored and the handler was installed
C13_Witness ==
    /\ mu.writer = None
    /\ completed = 1
    /\ emitted = 1
    /\ buildInfo.hostname = "__unknown__"
    /\ buildInfo.serviceName = serviceName
    /\ handler # NilHandler

\* C14: the stored triple is that of the last configuration applied; a
\* call whose triple differs in any field has stored all three fields and
\* discarded the previous handler (unset, or a newly constructed one when
\* the address is not empty); a set handler was constructed from the
\* stored installation id and basic-auth string.
C14_TripleAppliedAsUnit ==
    /\ (mu.writer = None /\ completed > 0) =>
          StoredTriple = CfgTriple(lastApplied)
    /\ handler # NilHandler => BuiltFromStored(handler)
    /\ \A w \in Writers :
          wpc[w] \in {"build", "unlock"} =>
              /\ StoredTriple = CfgTriple(wcfg[w])
              /\ wpc[w] = "build" => handler = NilHandler
              /\ SnapTriple # CfgTriple(wcfg[w]) =>
                    \/ handler = NilHandler
                    \/ (handler.id # snap.handler.id /\ addr # "")

\* a call that changed the installation id alone has replaced the handler
C14_Witness ==
    \E w \in Writers :
        /\ wpc[w] = "unlock"
        /\ snap.addr = addr
        /\ snap.basicAuth = basicAuth
        /\ snap.installationID # installationID
        /\ snap.handler # NilHandler
        /\ handler # NilHandler
        /\ handler # snap.handler

\* C15: a call whose triple is the stored one leaves the triple and the
\* handler as they were and constructs nothing, even when it changes the
\* service name; a call whose derived service name is the stored one emits
\* no build info and leaves the name, even when it changes the triple.
C15_SubUpdatesIndependent ==
    \A w \in Writers :
        mu.writer = w =>
            /\ CfgTriple(wcfg[w]) = SnapTriple =>
                  /\ StoredTriple = SnapTriple
                  /\ handler = snap.handler
                  /\ attempts = snap.attempts
            /\ ServiceName(wcfg[w].services) = snap.serviceName =>
                  /\ emitted = snap.emitted
                  /\ serviceName = snap.serviceName

\* a call changed the service name and emitted build info while the
\* handler stayed the one that was set
C15_Witness ==
    \E w \in Writers :
        /\ wpc[w] = "unlock"
        /\ CfgTriple(wcfg[w]) = SnapTriple
        /\ emitted = snap.emitted + 1
        /\ serviceName # snap.serviceName
        /\ handler # NilHandler
        /\ handler = snap.handler

\* at most one writer is in its critical section, and then no reader is
C16_State ==
    /\ \A w1, w2 \in Writers :
          (WriterInCS(w1) /\ WriterInCS(w2)) => w1 = w2
    /\ \A w \in Writers, r \in Readers : ~(WriterInCS(w) /\ InCS(r))

\* a request waiting for the lock a writer holds stays waiting, and a
\* response is written only while no writer is in its critical section
C16_Step ==
    \A r \in Readers :
        /\ (rpc[r] = "rlock" /\ \E w \in Writers : WriterInCS(w)) =>
              (rpc'[r] = "rlock" /\ response'[r] = NoResponse)
        /\ (response'[r] # response[r] /\ response'[r] # NoResponse) =>
              \A w \in Writers : ~WriterInCS(w) /\ ~WriterInCS(w)'

\* C16: an OnConfigChange is never inside its critical section together
\* with another OnConfigChange or a ServeHTTP; requests may be inside
\* theirs together; a request that arrives while OnConfigChange holds the
\* lock, the construction included, gets no response before the change
\* has left its critical section.
C16_LockDiscipline == [](C16_State) /\ [][C16_Step]_vars

\* two requests are inside ServeHTTP together while a change waits
C16_Witness ==
    /\ rpc["r1"] = "serve"
    /\ rpc["r2"] = "serve"
    /\ wpc["src"] = "wait"
    /\ mu.pending = "src"

\* a call with the stored triple, whose construction had failed, attempts
\* no construction and leaves the handler unset
C19_State ==
    \A w \in Writers :
        (/\ mu.writer = w
         /\ snap.addr # ""
         /\ snap.handler = NilHandler
         /\ CfgTriple(wcfg[w]) = SnapTriple) =>
            /\ wpc[w] # "build"
            /\ attempts = snap.attempts
            /\ handler = NilHandler

\* a construction is attempted only by a call whose triple differs from
\* the one stored when it began and whose bind address is not empty
C19_Step ==
    attempts' # attempts =>
        \E w \in Writers :
            /\ mu.writer = w
            /\ wcfg[w].addr # ""
            /\ CfgTriple(wcfg[w]) # SnapTriple
            /\ StoredTriple = CfgTriple(wcfg[w])

\* C19: after a failed construction the triple is stored, so a later
\* OnConfigChange with the same triple attempts no construction and leaves
\* the handler unset; a construction is attempted only by a call whose
\* triple differs from the stored one and whose bind address is not empty.
C19_NoRetryForSameTriple == [](C19_State) /\ [][C19_Step]_vars

\* the construction failed in the first call, and a second call with the
\* same triple is about to return with the handler still unset
C19_Witness ==
    \E w \in Writers :
        /\ wpc[w] = "unlock"
        /\ completed = 1
        /\ attempts = 1
        /\ lastBuild = "failed"
        /\ snap.addr # ""
        /\ CfgTriple(wcfg[w]) = SnapTriple
        /\ handler = NilHandler

\* C20: once NewMetricsManager has returned and no notification is
\* running, the stored triple and service name are those of the source's
\* current configuration.
C20_ConvergesToSource ==
    (wpc["ctor"] = "returned" /\ wpc["src"] = "idle") =>
        /\ StoredTriple = CfgTriple(srcCfg)
        /\ serviceName = ServiceName(srcCfg.services)

(***************************************************************************)
(* Progress of the metrics endpoint, checked under SpecFair                *)
(***************************************************************************)
\* a call of OnConfigChange or ServeHTTP has begun and not yet returned
Busy ==
    \/ \E w \in Writers : wpc[w] \in {"lock", "wait"} \/ WriterInCS(w)
    \/ \E r \in Readers : rpc[r] # "idle"

\* the lock is held by exactly the calls inside their critical sections,
\* so a call that has returned holds nothing; and while a call is under
\* way some call can take a step
C17_State ==
    /\ \A w \in Writers : mu.writer = w <=> WriterInCS(w)
    /\ \A w \in Writers : mu.pending = w <=> wpc[w] = "wait"
    /\ \A r \in Readers : r \in mu.readers <=> InCS(r)
    /\ Busy => ENABLED (\/ \E w \in Writers : WriterProgress(w)
                        \/ \E r \in Readers : ReaderProgress(r))

\* C17: OnConfigChange releases the exclusive lock on every exit path and
\* ServeHTTP the shared lock on both of its paths, so the endpoint never
\* deadlocks; under fair scheduling every OnConfigChange that has begun
\* completes and every request that has begun receives a response.
C17_Progress ==
    /\ [](C17_State)
    /\ \A w \in Writers :
          (wpc[w] = "lock") ~> (wpc[w] \in {"idle", "returned"})
    /\ \A r \in Readers :
          (rpc[r] = "rlock") ~> (rpc[r] = "runlock" /\ response[r] # NoResponse)

\* two changes have returned, one of them after a failed construction, the
\* lock is free and a request has its not-found response
C17_Witness ==
    /\ mu.writer = None
    /\ completed = 2
    /\ lastBuild = "failed"
    /\ wpc["ctor"] = "returned"
    /\ wpc["src"] = "idle"
    /\ rpc["r1"] = "runlock"
    /\ response["r1"] = NotFound

=============================================================================
